---- MODULE Spec2Model ----
(***************************************************************************)
(* Model of main.py: the work-queue driver (main, process_books), the      *)
(* four retrying wrappers around the AI endpoints, the token handling of   *)
(* service_youtube and the upload loop of upload_video_to_youtube.         *)
(*                                                                         *)
(* A string is a sequence of tokens.  The marker literal "PROCESSED:" is   *)
(* one token (MARK); " " and "\n" are the whitespace tokens.  books.txt is *)
(* kept as its physical lines: the text of the line and the bytes of its   *)
(* terminator ("LF" = \n, "CRLF" = \r\n, "NONE" = end of file without a    *)
(* terminator).                                                            *)
(***************************************************************************)
EXTENDS Integers, Sequences, FiniteSets

VARIABLES
    linesep,          \* os.linesep of the platform running the script
    disk,             \* books.txt on disk: sequence of physical lines
    token,            \* youtube_token.pickle
    pc,               \* control location of main / process_books
    lines,            \* process_books: lines (result of file.readlines())
    i,                \* process_books: loop index (1-based here)
    processed_books,  \* process_books: processed_books
    book_title,       \* process_books: book_title
    full_summary,     \* process_books: full_summary
    directory,        \* Videos/<slug>/ exists
    audio,            \* Videos/<slug>/voice.mp3
    image,            \* Videos/<slug>/image.png
    srt_path,         \* process_books: srt_path
    response,         \* upload_video_to_youtube: response
    chunks,           \* upload_video_to_youtube: next_chunk() calls that returned no response
    lastCall,         \* the last wrapper call that returned: its name, attempt log and result
    steps,            \* history: pipeline steps called in this invocation, in order
    outcome,          \* history: how the current invocation went
    crashStep,        \* history: the statement whose exception ended main
    diskAtStart,      \* history: books.txt when the current invocation started
    marked0,          \* history: number of marker lines in the initial books.txt
    len0,             \* history: number of lines of the initial books.txt
    invocations,      \* history: number of process_books invocations started
    retryOf           \* history: title and line of the last invocation that failed after selecting

vars == <<linesep, disk, token, pc, lines, i, processed_books, book_title,
          full_summary, directory, audio, image, srt_path, response, chunks,
          lastCall, steps, outcome, crashStep, diskAtStart, marked0, len0,
          invocations, retryOf>>

-----------------------------------------------------------------------------
(* Bounds of the model. *)

MaxLines == 2          \* lines of books.txt
MaxInvocations == 2    \* process_books invocations followed
MaxChunks == 1         \* next_chunk() calls that report progress only

(* Program constants. *)

max_retries == 3       \* default of every wrapper

-----------------------------------------------------------------------------
(* Strings. *)

MARK == "PROCESSED:"
SPACE == " "
NL == "\n"
Whitespace == {SPACE, NL}

(* The line texts books.txt is drawn from: plain titles, a padded title, a *)
(* blank line, marker lines with and without the blank after the marker.   *)
Texts ==
    { <<>>, <<"a">>, <<"b">>, <<SPACE, "a">>,
      <<MARK, SPACE, "a">>, <<MARK, "b">> }

\* str.startswith
startswith(s, t) == Len(s) >= 1 /\ s[1] = t

RECURSIVE lstrip(_)
lstrip(s) ==
    IF s # <<>> /\ Head(s) \in Whitespace THEN lstrip(Tail(s)) ELSE s

RECURSIVE rstrip(_)
rstrip(s) ==
    IF s # <<>> /\ s[Len(s)] \in Whitespace
    THEN rstrip(SubSeq(s, 1, Len(s) - 1))
    ELSE s

\* str.strip
strip(s) == rstrip(lstrip(s))

\* str.replace(t, ""): every occurrence of t is removed
replace(s, t) == SelectSeq(s, LAMBDA c : c # t)

\* line.strip().replace("PROCESSED:", "").strip()
marker_title(line) == strip(replace(strip(line), MARK))

\* f"PROCESSED: {book_title}\n"
processed_line(title) == <<MARK, SPACE>> \o title \o <<NL>>

-----------------------------------------------------------------------------
(* books.txt, opened in text mode ('r+', newline=None). *)

Terms == {"LF", "CRLF", "NONE"}
PhysLine == [text : Texts, term : Terms]

\* a variant that drops the terminators, as file.read().splitlines() would
readlines_no_keepends(d) == [k \in 1..Len(d) |-> d[k].text]

\* file.readlines(): universal newlines, every terminator is read as "\n"
readlines(d) ==
    [k \in 1..Len(d) |->
        IF d[k].term = "NONE" THEN d[k].text ELSE d[k].text \o <<NL>>]

\* the characters of all elements of lines, in order
RECURSIVE joined(_)
joined(ls) == IF ls = <<>> THEN <<>> ELSE Head(ls) \o joined(Tail(ls))

\* the physical lines of a character stream written in text mode: every
\* "\n" is written as os.linesep
RECURSIVE physical(_, _, _)
physical(chars, cur, sep) ==
    IF chars = <<>>
    THEN IF cur = <<>> THEN <<>> ELSE <<[text |-> cur, term |-> "NONE"]>>
    ELSE IF Head(chars) = NL
    THEN <<[text |-> cur, term |-> sep]>> \o physical(Tail(chars), <<>>, sep)
    ELSE physical(Tail(chars), Append(cur, Head(chars)), sep)

\* a variant without file.seek(0): the lines are written after the ones read
writelines_no_seek(ls, sep) ==
    physical(joined(ls), <<>>, sep) \o physical(joined(ls), <<>>, sep)

\* file.seek(0); file.writelines(lines); file.truncate()
writelines(ls, sep) == physical(joined(ls), <<>>, sep)

\* a variant that writes the lines back in a finally clause
on_exception_flush(d, ls, sep) == writelines(ls, sep)

\* the with-block is left by an exception: nothing is written
on_exception(d, ls, sep) == d

-----------------------------------------------------------------------------
(* The retry loops of the four wrappers.  resps[k] is what the endpoint     *)
(* does on the k-th request of the call; log is the requests made so far.   *)

SummaryResps == {"200", "non200", "RequestException"}
ApiResps == {"ok", "error"}
Scripts(R) == [1..max_retries -> R]

\* generate_book_summary, lines 45-59
RECURSIVE summary_loop(_, _, _)
summary_loop(resps, attempts, log) ==
    IF attempts < max_retries
    THEN LET r == resps[Len(log) + 1] IN
         IF r = "200"
         THEN [result |-> "text", log |-> Append(log, r)]
         ELSE summary_loop(resps, attempts + 1, Append(log, r))
    ELSE [result |-> "tuple", log |-> log]

generate_book_summary(resps) == summary_loop(resps, 0, <<>>)

\* a variant of the loop below that gives up one attempt early
RECURSIVE speech_loop_one_less(_, _, _)
speech_loop_one_less(resps, attempts, log) ==
    IF attempts < max_retries - 1
    THEN LET r == resps[Len(log) + 1] IN
         IF r = "ok"
         THEN [result |-> "written", log |-> Append(log, r)]
         ELSE speech_loop_one_less(resps, attempts + 1, Append(log, r))
    ELSE [result |-> "exhausted", log |-> log]

\* text_to_speech, lines 92-109
RECURSIVE speech_loop(_, _, _)
speech_loop(resps, attempts, log) ==
    IF attempts < max_retries
    THEN LET r == resps[Len(log) + 1] IN
         IF r = "ok"
         THEN [result |-> "written", log |-> Append(log, r)]
         ELSE speech_loop(resps, attempts + 1, Append(log, r))
    ELSE [result |-> "exhausted", log |-> log]

\* text_to_speech: mkdir (lines 78-82), then the loop
text_to_speech(mkdir_ok, resps) ==
    IF ~mkdir_ok
    THEN [result |-> "mkdir_failed", log |-> <<>>]
    ELSE speech_loop(resps, 0, <<>>)

\* generate_book_thumbnail, lines 124-150: the attempt fails too when
\* open(image_path, 'wb') finds no directory
RECURSIVE thumbnail_loop(_, _, _, _)
thumbnail_loop(dir, resps, attempts, log) ==
    IF attempts < max_retries
    THEN LET r == IF dir THEN resps[Len(log) + 1] ELSE "error" IN
         IF r = "ok"
         THEN [result |-> "written", log |-> Append(log, r)]
         ELSE thumbnail_loop(dir, resps, attempts + 1, Append(log, r))
    ELSE [result |-> "exhausted", log |-> log]

generate_book_thumbnail(dir, resps) == thumbnail_loop(dir, resps, 0, <<>>)

\* generate_subtitles, lines 164-189: the attempt fails too when
\* open(audio_file_path, "rb") finds no file
RECURSIVE subtitles_loop(_, _, _, _)
subtitles_loop(aud, resps, attempts, log) ==
    IF attempts < max_retries
    THEN LET r == IF aud # "missing" THEN resps[Len(log) + 1] ELSE "error" IN
         IF r = "ok"
         THEN [result |-> "path", log |-> Append(log, r)]
         ELSE subtitles_loop(aud, resps, attempts + 1, Append(log, r))
    ELSE [result |-> "None", log |-> log]

generate_subtitles(aud, resps) == subtitles_loop(aud, resps, 0, <<>>)

-----------------------------------------------------------------------------
(* service_youtube, lines 212-236: the outcomes of one call on a token     *)
(* file.  raised names the call whose exception leaves the function.        *)

TokenStates == {"absent", "valid", "expired_rt", "expired_no_rt"}

service_youtube(tok) ==
    IF tok = "valid"
    THEN {[token |-> tok, raised |-> "none"]}
    ELSE IF tok = "expired_rt"
    THEN {[token |-> "valid", raised |-> "none"],           \* refresh, saved
          [token |-> tok, raised |-> "creds.refresh"]}      \* not caught
    ELSE {[token |-> "valid", raised |-> "none"],           \* login, saved
          [token |-> tok, raised |-> "run_local_server"]}

\* a day later (time.sleep, or the next launch) the access token may be over
aged(tok) == IF tok = "valid" THEN {"valid", "expired_rt"} ELSE {tok}

-----------------------------------------------------------------------------
(* State. *)

NoCall == [fn |-> "none", log |-> <<>>, result |-> "none"]
NoRetry == [title |-> <<"-">>, line |-> 0]

Marked(d) == {k \in 1..Len(d) : startswith(d[k].text, MARK)}

Files ==
    {d \in UNION {[1..n -> PhysLine] : n \in 0..MaxLines} :
        /\ \A k \in 1..Len(d) :
              d[k].term = "NONE" => (k = Len(d) /\ d[k].text # <<>>)
        /\ \A j, k \in 1..Len(d) :
              (d[j].term # "NONE" /\ d[k].term # "NONE") => d[j].term = d[k].term}

Init ==
    /\ linesep \in {"LF", "CRLF"}
    /\ disk \in Files
    /\ token \in TokenStates
    /\ pc = "main"
    /\ lines = <<>>
    /\ i = 0
    /\ processed_books = {}
    /\ book_title = <<>>
    /\ full_summary = "none"
    /\ directory = FALSE
    /\ audio = "none"
    /\ image = "none"
    /\ srt_path = "none"
    /\ response = "None"
    /\ chunks = 0
    /\ lastCall = NoCall
    /\ steps = <<>>
    /\ outcome = "none"
    /\ crashStep = "none"
    /\ diskAtStart = disk
    /\ marked0 = Cardinality(Marked(disk))
    /\ len0 = Len(disk)
    /\ invocations = 0
    /\ retryOf = NoRetry

-----------------------------------------------------------------------------
(* Actions. *)

fixed == <<linesep, marked0, len0>>
artifacts == <<directory, audio, image, srt_path>>
scan == <<lines, i, processed_books, book_title>>
upload == <<response, chunks>>

\* an exception no statement of main.py catches: it leaves process_books
\* (the with-block closes books.txt), main and the script
Raise(statement) ==
    /\ pc' = "crashed"
    /\ crashStep' = statement
    /\ outcome' = "raised"
    /\ disk' = on_exception(disk, lines, linesep)
    /\ retryOf' = [title |-> book_title, line |-> i]
    /\ lastCall' = NoCall

\* a variant that marks every unmarked line, not only lines[i]
mark_every_unmarked(ls, idx, title) ==
    [k \in 1..Len(ls) |->
        IF startswith(ls[k], MARK) THEN ls[k] ELSE processed_line(strip(ls[k]))]

\* lines[i] = f"PROCESSED: {book_title}\n", line 367
mark_processed(ls, idx, title) == [ls EXCEPT ![idx] = processed_line(title)]

\* the locals of process_books and of the functions it calls, before a call
\* and after it (a return, or the end of the process); the history of the
\* invocation goes with them
fresh_frame ==
    /\ lines' = <<>>
    /\ i' = 0
    /\ processed_books' = {}
    /\ book_title' = <<>>
    /\ full_summary' = "none"
    /\ directory' = FALSE
    /\ audio' = "none"
    /\ image' = "none"
    /\ srt_path' = "none"
    /\ response' = "None"
    /\ chunks' = 0
    /\ lastCall' = NoCall
    /\ steps' = <<>>
    /\ crashStep' = "none"
    /\ diskAtStart' = disk

\* main, line 448: process_books(api_key, books_file_path)
main_call ==
    /\ pc = "main"
    /\ invocations < MaxInvocations
    /\ pc' = "service_youtube"
    /\ invocations' = invocations + 1
    /\ fresh_frame
    /\ outcome' = "running"
    /\ UNCHANGED <<fixed, disk, token, retryOf>>

\* process_books, line 293: youtube_service = service_youtube()
call_service_youtube ==
    /\ pc = "service_youtube"
    /\ \E o \in service_youtube(token) :
          /\ token' = o.token
          /\ IF o.raised = "none"
             THEN /\ pc' = "open"
                  /\ UNCHANGED <<outcome, crashStep>>
             ELSE /\ pc' = "crashed"
                  /\ crashStep' = o.raised
                  /\ outcome' = "raised"
    /\ UNCHANGED <<fixed, disk, scan, full_summary, artifacts, upload,
                   lastCall, steps, diskAtStart, invocations, retryOf>>

\* process_books, lines 295-302
open_file ==
    /\ pc = "open"
    /\ lines' = readlines(disk)
    /\ processed_books' = {}
    /\ i' = 1
    /\ pc' = "for"
    /\ UNCHANGED <<fixed, disk, token, book_title, full_summary, artifacts,
                   upload, lastCall, steps, outcome, crashStep, diskAtStart,
                   invocations, retryOf>>

\* process_books, lines 304-308: a marker line
for_marked ==
    /\ pc = "for"
    /\ i <= Len(lines)
    /\ startswith(lines[i], MARK)
    /\ processed_books' = processed_books \cup {marker_title(lines[i])}
    /\ i' = i + 1
    /\ UNCHANGED <<fixed, disk, token, pc, lines, book_title, full_summary,
                   artifacts, upload, lastCall, steps, outcome, crashStep,
                   diskAtStart, invocations, retryOf>>

\* process_books, lines 310-314: a title of the processed-set
for_skip ==
    /\ pc = "for"
    /\ i <= Len(lines)
    /\ ~startswith(lines[i], MARK)
    /\ strip(lines[i]) \in processed_books
    /\ i' = i + 1
    /\ UNCHANGED <<fixed, disk, token, pc, lines, processed_books, book_title,
                   full_summary, artifacts, upload, lastCall, steps, outcome,
                   crashStep, diskAtStart, invocations, retryOf>>

\* process_books, lines 310-318: the title to process
for_select ==
    /\ pc = "for"
    /\ i <= Len(lines)
    /\ ~startswith(lines[i], MARK)
    /\ strip(lines[i]) \notin processed_books
    /\ book_title' = strip(lines[i])
    /\ pc' = "generate_book_summary"
    /\ UNCHANGED <<fixed, disk, token, lines, i, processed_books,
                   full_summary, artifacts, upload, lastCall, steps, outcome,
                   crashStep, diskAtStart, invocations, retryOf>>

\* process_books, line 304: the loop ends with no title selected
for_end ==
    /\ pc = "for"
    /\ i > Len(lines)
    /\ outcome' = "noop"
    /\ pc' = "write"
    /\ UNCHANGED <<fixed, disk, token, scan, full_summary, artifacts, upload,
                   lastCall, steps, crashStep, diskAtStart, invocations,
                   retryOf>>

\* process_books, lines 321-322
call_generate_book_summary ==
    /\ pc = "generate_book_summary"
    /\ \E resps \in Scripts(SummaryResps) :
          LET r == generate_book_summary(resps) IN
          /\ full_summary' = r.result
          /\ lastCall' = [fn |-> "generate_book_summary", log |-> r.log,
                          result |-> r.result]
    /\ steps' = Append(steps, "summary")
    /\ pc' = "concat"
    /\ UNCHANGED <<fixed, disk, token, scan, artifacts, upload, outcome,
                   crashStep, diskAtStart, invocations, retryOf>>

\* process_books, line 323: full_summary += '...'; a tuple and a str do not
\* concatenate (TypeError)
concat ==
    /\ pc = "concat"
    /\ IF full_summary = "tuple"
       THEN /\ Raise("full_summary +=")
            /\ UNCHANGED <<fixed, token, scan, full_summary, artifacts,
                           upload, steps, diskAtStart, invocations>>
       ELSE /\ pc' = "text_to_speech"
            /\ lastCall' = NoCall
            /\ UNCHANGED <<fixed, disk, token, scan, full_summary, artifacts,
                           upload, steps, outcome, crashStep, diskAtStart,
                           invocations, retryOf>>

\* process_books, line 326.  stale: a voice.mp3 of an earlier run is there
call_text_to_speech ==
    /\ pc = "text_to_speech"
    /\ \E mkdir_ok \in BOOLEAN, stale \in BOOLEAN, resps \in Scripts(ApiResps) :
          LET r == text_to_speech(mkdir_ok, resps) IN
          /\ directory' = mkdir_ok
          /\ audio' = IF r.result = "written" THEN "fresh"
                      ELSE IF mkdir_ok /\ stale THEN "stale" ELSE "missing"
          /\ lastCall' = [fn |-> "text_to_speech", log |-> r.log,
                          result |-> r.result]
    /\ steps' = Append(steps, "narration")
    /\ pc' = "generate_book_thumbnail"
    /\ UNCHANGED <<fixed, disk, token, scan, full_summary, image, srt_path,
                   upload, outcome, crashStep, diskAtStart, invocations,
                   retryOf>>

\* process_books, line 329.  stale: an image.png of an earlier run is there
call_generate_book_thumbnail ==
    /\ pc = "generate_book_thumbnail"
    /\ \E stale \in BOOLEAN, resps \in Scripts(ApiResps) :
          LET r == generate_book_thumbnail(directory, resps) IN
          /\ image' = IF r.result = "written" THEN "fresh"
                      ELSE IF directory /\ stale THEN "stale" ELSE "missing"
          /\ lastCall' = [fn |-> "generate_book_thumbnail", log |-> r.log,
                          result |-> r.result]
    /\ steps' = Append(steps, "thumbnail")
    /\ pc' = "generate_subtitles"
    /\ UNCHANGED <<fixed, disk, token, scan, full_summary, directory, audio,
                   srt_path, upload, outcome, crashStep, diskAtStart,
                   invocations, retryOf>>

\* process_books, lines 332-336
call_generate_subtitles ==
    /\ pc = "generate_subtitles"
    /\ \E resps \in Scripts(ApiResps) :
          LET r == generate_subtitles(audio, resps) IN
          /\ srt_path' = r.result
          /\ lastCall' = [fn |-> "generate_subtitles", log |-> r.log,
                          result |-> r.result]
    /\ steps' = Append(steps, "transcription")
    /\ pc' = "AudioFileClip"
    /\ UNCHANGED <<fixed, disk, token, scan, full_summary, directory, audio,
                   image, upload, outcome, crashStep, diskAtStart,
                   invocations, retryOf>>

\* process_books, lines 339-340: AudioFileClip raises when voice.mp3 is absent
audio_duration ==
    /\ pc = "AudioFileClip"
    /\ IF audio = "missing"
       THEN /\ Raise("AudioFileClip")
            /\ UNCHANGED <<fixed, token, scan, full_summary, artifacts,
                           upload, steps, diskAtStart, invocations>>
       ELSE /\ pc' = "create_video"
            /\ lastCall' = NoCall
            /\ UNCHANGED <<fixed, disk, token, scan, full_summary, artifacts,
                           upload, steps, outcome, crashStep, diskAtStart,
                           invocations, retryOf>>

\* process_books, lines 343-350, create_video_from_image_and_audio, lines
\* 438-444: ImageClip raises when image.png is absent
create_video_from_image_and_audio ==
    /\ pc = "create_video"
    /\ IF image = "missing"
       THEN /\ Raise("ImageClip")
            /\ UNCHANGED <<fixed, token, scan, full_summary, artifacts,
                           upload, steps, diskAtStart, invocations>>
       ELSE /\ pc' = "subtitled_video"
            /\ steps' = Append(steps, "stageA")
            /\ UNCHANGED <<fixed, disk, token, scan, full_summary, artifacts,
                           upload, lastCall, outcome, crashStep, diskAtStart,
                           invocations, retryOf>>

\* process_books, lines 352-360: pysrt.open(str(None)) opens the file named
\* "None" and raises FileNotFoundError, which line 355 does not catch; a
\* UnicodeDecodeError is caught and the file is parsed by
\* open_srt_with_encoding, with the same effect on the state
subtitled_video ==
    /\ pc = "subtitled_video"
    /\ IF srt_path = "None"
       THEN /\ Raise("pysrt.open")
            /\ UNCHANGED <<fixed, token, scan, full_summary, artifacts,
                           upload, steps, diskAtStart, invocations>>
       ELSE /\ pc' = "upload"
            /\ steps' = Append(steps, "stageB")
            /\ UNCHANGED <<fixed, disk, token, scan, full_summary, artifacts,
                           upload, lastCall, outcome, crashStep, diskAtStart,
                           invocations, retryOf>>

\* upload_video_to_youtube, lines 283-286: next_chunk() reports progress
next_chunk_progress ==
    /\ pc = "upload"
    /\ response = "None"
    /\ chunks < MaxChunks
    /\ chunks' = chunks + 1
    /\ UNCHANGED <<fixed, disk, token, pc, scan, full_summary, artifacts,
                   response, lastCall, steps, outcome, crashStep, diskAtStart,
                   invocations, retryOf>>

\* upload_video_to_youtube, lines 283-288: next_chunk() returns the response
next_chunk_response ==
    /\ pc = "upload"
    /\ response = "None"
    /\ response' = "id"
    /\ steps' = Append(steps, "upload")
    /\ pc' = "mark"
    /\ UNCHANGED <<fixed, disk, token, scan, full_summary, artifacts, chunks,
                   lastCall, outcome, crashStep, diskAtStart, invocations,
                   retryOf>>

\* a variant in which the exception of next_chunk() is swallowed and
\* upload_video_to_youtube returns without a response
next_chunk_swallowed ==
    /\ pc = "upload"
    /\ response = "None"
    /\ pc' = "mark"
    /\ UNCHANGED <<fixed, disk, token, scan, full_summary, artifacts, upload,
                   lastCall, steps, outcome, crashStep, diskAtStart,
                   invocations, retryOf>>

\* upload_video_to_youtube, line 284: next_chunk() raises (HttpError)
next_chunk_raises ==
    /\ pc = "upload"
    /\ response = "None"
    /\ Raise("next_chunk")
    /\ UNCHANGED <<fixed, token, scan, full_summary, artifacts, upload, steps,
                   diskAtStart, invocations>>

\* process_books, lines 366-369
mark ==
    /\ pc = "mark"
    /\ lines' = mark_processed(lines, i, book_title)
    /\ outcome' = "processed"
    /\ pc' = "write"
    /\ UNCHANGED <<fixed, disk, token, i, processed_books, book_title,
                   full_summary, artifacts, upload, lastCall, steps, crashStep,
                   diskAtStart, invocations, retryOf>>

\* process_books, lines 371-374, and the return to main
write ==
    /\ pc = "write"
    /\ disk' = writelines(lines, linesep)
    /\ retryOf' = IF outcome = "processed" THEN NoRetry ELSE retryOf
    /\ pc' = "sleep"
    /\ UNCHANGED <<fixed, token, scan, full_summary, artifacts, upload,
                   lastCall, steps, outcome, crashStep, diskAtStart,
                   invocations>>

\* main, lines 450-455
sleep ==
    /\ pc = "sleep"
    /\ token' \in aged(token)
    /\ pc' = "main"
    /\ fresh_frame
    /\ outcome' = "none"
    /\ UNCHANGED <<fixed, disk, invocations, retryOf>>

\* the script (line 460) is launched again after an uncaught exception
relaunch ==
    /\ pc = "crashed"
    /\ token' \in aged(token)
    /\ pc' = "main"
    /\ fresh_frame
    /\ outcome' = "none"
    /\ UNCHANGED <<fixed, disk, invocations, retryOf>>

Next ==
    \/ main_call
    \/ call_service_youtube
    \/ open_file
    \/ for_marked
    \/ for_skip
    \/ for_select
    \/ for_end
    \/ call_generate_book_summary
    \/ concat
    \/ call_text_to_speech
    \/ call_generate_book_thumbnail
    \/ call_generate_subtitles
    \/ audio_duration
    \/ create_video_from_image_and_audio
    \/ subtitled_video
    \/ next_chunk_progress
    \/ next_chunk_response
    \/ next_chunk_raises
    \/ mark
    \/ write
    \/ sleep
    \/ relaunch

Spec == Init /\ [][Next]_vars

-----------------------------------------------------------------------------
(* What the claims speak of. *)

Started == invocations > 0

\* the decoded lines of books.txt at the start of the current invocation
L0 == readlines(diskAtStart)

MarkedLines(L) == {k \in 1..Len(L) : startswith(L[k], MARK)}

\* the processed-set accumulated from the lines before line k
ProcessedSetBefore(L, k) ==
    {marker_title(L[j]) : j \in {j \in MarkedLines(L) : j < k}}

\* line k is an unprocessed title: no marker line, and its stripped title is
\* not in the processed-set accumulated so far
Eligible(L, k) ==
    /\ ~startswith(L[k], MARK)
    /\ strip(L[k]) \notin ProcessedSetBefore(L, k)

\* the first unprocessed line in file order, 0 when there is none
FirstEligible(L) ==
    IF \E k \in 1..Len(L) : Eligible(L, k)
    THEN CHOOSE k \in 1..Len(L) :
            Eligible(L, k) /\ \A j \in 1..(k - 1) : ~Eligible(L, j)
    ELSE 0

\* the invocation went through the pipeline and returned to main
Completed == outcome = "processed" /\ pc = "sleep"

\* the terminator a rewritten line has
Normal(term) == IF term = "NONE" THEN "NONE" ELSE linesep

Pipeline ==
    <<"summary", "narration", "thumbnail", "transcription", "stageA",
      "stageB", "upload">>

IsPrefix(s, t) == Len(s) <= Len(t) /\ s = SubSeq(t, 1, Len(s))

NewlyMarked ==
    {k \in 1..Len(disk) :
        /\ k <= Len(diskAtStart)
        /\ startswith(disk[k].text, MARK)
        /\ ~startswith(diskAtStart[k].text, MARK)}

NarrationExhausted == directory /\ audio \in {"stale", "missing"}
ThumbnailExhausted == image \in {"stale", "missing"}
TranscriptionExhausted == srt_path = "None"

OkResps == {"200", "ok"}
SuccessResults == {"text", "written", "path"}
FailureResults == {"tuple", "exhausted", "None"}

-----------------------------------------------------------------------------
(* The claims. *)

\* C1, as stated: an invocation that completes the pipeline for T rewrites
\* exactly the first unprocessed line, which becomes the processed form of T,
\* and every other line of the file is byte-identical before and after.
C1_Original ==
    Completed =>
        LET k == FirstEligible(L0) IN
        /\ k # 0
        /\ book_title = strip(L0[k])
        /\ Len(disk) = Len(diskAtStart)
        /\ disk[k].text = <<MARK, SPACE>> \o book_title
        /\ \A j \in (1..Len(disk)) \ {k} : disk[j] = diskAtStart[j]

\* C1, amended: an invocation that completes the pipeline for T rewrites
\* exactly the first unprocessed line, which becomes "PROCESSED: T" ended by
\* os.linesep; every other line keeps its text, and its terminator is written
\* as os.linesep (a last line without terminator stays without one).
C1_Amended ==
    Completed =>
        LET k == FirstEligible(L0) IN
        /\ k # 0
        /\ book_title = strip(L0[k])
        /\ Len(disk) = Len(diskAtStart)
        /\ disk[k] = [text |-> <<MARK, SPACE>> \o book_title, term |-> linesep]
        /\ \A j \in (1..Len(disk)) \ {k} :
              /\ disk[j].text = diskAtStart[j].text
              /\ disk[j].term = Normal(diskAtStart[j].term)

\* C1 witness: a two-line file whose first line was processed while the
\* second, another unprocessed title, was left alone.
C1_Witness ==
    /\ Completed
    /\ Len(disk) = 2
    /\ FirstEligible(L0) = 1
    /\ ~startswith(disk[2].text, MARK)
    /\ strip(disk[2].text) # book_title

\* C2, as stated: a title that has a marker line in the file at the start of
\* an invocation is not sent through the pipeline by that invocation.
C2_Claim ==
    steps # <<>> =>
        book_title \notin {marker_title(L0[k]) : k \in MarkedLines(L0)}

\* C3, as stated: when generate_book_summary returns its failure value, the
\* driver goes on without an uncaught exception.
C3_Claim == full_summary = "tuple" => pc # "crashed"

\* C4: an invocation that ends by an exception after selecting T leaves
\* books.txt unchanged, T's line unmarked, and the next invocation that
\* selects a title selects T on the same line.
C4_Theorem ==
    /\ pc = "crashed" => disk = diskAtStart
    /\ (pc = "crashed" /\ retryOf # NoRetry) =>
          /\ retryOf.line \in 1..Len(disk)
          /\ ~startswith(disk[retryOf.line].text, MARK)
          /\ strip(readlines(disk)[retryOf.line]) = retryOf.title
          /\ FirstEligible(readlines(disk)) = retryOf.line
    /\ (pc = "generate_book_summary" /\ retryOf # NoRetry) =>
          /\ book_title = retryOf.title
          /\ i = retryOf.line

\* C4 witness: the invocation after a failed one has selected the same title.
C4_Witness ==
    /\ pc = "generate_book_summary"
    /\ invocations = 2
    /\ retryOf # NoRetry
    /\ book_title = retryOf.title
    /\ Len(disk) = 2

\* C5, as stated: whatever the generation steps returned (retry exhaustion
\* of narration, thumbnail or transcription included), main is not ended by
\* the statement that reads the artifact, so it reaches the sleep.
C5_Claim ==
    /\ NarrationExhausted => ~(pc = "crashed" /\ crashStep = "AudioFileClip")
    /\ ThumbnailExhausted => ~(pc = "crashed" /\ crashStep = "ImageClip")
    /\ TranscriptionExhausted => ~(pc = "crashed" /\ crashStep = "pysrt.open")

\* C6: a wrapper call makes at most max_retries requests, no request follows
\* a successful one, and a call whose requests all fail returns its failure
\* value after exactly max_retries requests.
C6_Theorem ==
    lastCall.fn # "none" =>
        LET log == lastCall.log
            n == Len(lastCall.log) IN
        /\ n <= max_retries
        /\ \A k \in 1..(n - 1) : log[k] \notin OkResps
        /\ lastCall.result \in SuccessResults \cup FailureResults \cup {"mkdir_failed"}
        /\ lastCall.result \in SuccessResults => (n >= 1 /\ log[n] \in OkResps)
        /\ lastCall.result \in FailureResults =>
              (n = max_retries /\ \A k \in 1..n : log[k] \notin OkResps)
        /\ lastCall.result = "mkdir_failed" => n = 0

\* C6 witness: generate_subtitles returned None after max_retries requests.
C6_Witness ==
    /\ lastCall.fn = "generate_subtitles"
    /\ lastCall.result = "None"
    /\ Len(lastCall.log) = max_retries
    /\ audio = "fresh"

\* C7, as stated: a failing refresh of an expired token with a refresh token
\* does not raise out of service_youtube.
C7_Claim == pc = "crashed" => crashStep # "creds.refresh"

\* C8, as stated: with no unprocessed title in books.txt the invocation calls
\* no pipeline step and leaves the file content identical.
C8_Original ==
    (Started /\ FirstEligible(L0) = 0) =>
        /\ steps = <<>>
        /\ disk = diskAtStart

\* C8, amended: with no unprocessed title in books.txt the invocation calls
\* no pipeline step and marks nothing; it rewrites the file with the same
\* lines, every line terminator written as os.linesep.
C8_Amended ==
    (Started /\ FirstEligible(L0) = 0) =>
        /\ steps = <<>>
        /\ outcome # "processed"
        /\ Len(disk) = Len(diskAtStart)
        /\ \A j \in 1..Len(disk) :
              /\ disk[j].text = diskAtStart[j].text
              /\ disk[j].term \in {diskAtStart[j].term, Normal(diskAtStart[j].term)}
        /\ (outcome = "noop" /\ pc = "sleep") =>
              \A j \in 1..Len(disk) : disk[j].term = Normal(diskAtStart[j].term)

\* C8 witness: a no-op invocation returned on a file that holds an unmarked
\* line whose title is in the processed-set.
C8_Witness ==
    /\ outcome = "noop"
    /\ pc = "sleep"
    /\ \E j \in 1..Len(disk) : ~startswith(disk[j].text, MARK)

\* C9: the pipeline steps are called in the fixed forward order, and a line
\* is marked only when all of them were called and the upload loop received
\* its response.
C9_Theorem ==
    /\ IsPrefix(steps, Pipeline)
    /\ (outcome = "processed" \/ NewlyMarked # {}) =>
          /\ steps = Pipeline
          /\ response = "id"

\* C9 witness: a marker was written after an upload of more than one chunk.
C9_Witness ==
    /\ NewlyMarked # {}
    /\ pc = "sleep"
    /\ chunks >= 1

\* C10: books.txt keeps its number of lines and their order, a marker line
\* stays a marker line, an invocation adds at most one marker line, and after
\* N invocations at most N more lines are marked than at the start.
C10_Theorem ==
    /\ Len(disk) = len0
    /\ Len(disk) = Len(diskAtStart)
    /\ \A k \in 1..Len(disk) :
          /\ startswith(diskAtStart[k].text, MARK) => startswith(disk[k].text, MARK)
          /\ disk[k].text \in {diskAtStart[k].text,
                               <<MARK, SPACE>> \o strip(diskAtStart[k].text)}
    /\ Cardinality(Marked(disk)) <= Cardinality(Marked(diskAtStart)) + 1
    /\ Cardinality(Marked(disk)) <= marked0 + invocations

\* C10 witness: two invocations have marked two lines.
C10_Witness ==
    /\ invocations = 2
    /\ Cardinality(Marked(disk)) = marked0 + 2

====
